---------------------------- MODULE Spec2Model ----------------------------
(***************************************************************************)
(* A model of mangum's AWS Application Load Balancer handler               *)
(* (mangum/handlers/aws_alb.py): the translation of an ALB trigger event   *)
(* into a Request and of a Response into the ALB reply.                    *)
(*                                                                         *)
(* Text is a sequence of code points and a byte string a sequence of       *)
(* numbers in 0..255.  A Python dict is a sequence of [k, v] entries in    *)
(* insertion order.  A Python value that may be None, a str, bytes, a bool *)
(* or a dict is a record [t, v] tagged with its type.                      *)
(***************************************************************************)
EXTENDS Integers, Sequences, FiniteSets, TLC

VARIABLES
    trigger_event,  \* the event dict: a function from the keys present to values
    response,       \* the Response handed to transform_response
    query_sent,     \* the query the client sent and how the load balancer hands it over
    pc,             \* "start", then the name of the operation that has run
    result          \* what the operation returned or raised

vars == <<trigger_event, response, query_sent, pc, result>>

-----------------------------------------------------------------------------
(* Characters *)

Printable ==
    << " ", "!", "\"", "#", "$", "%", "&", "'", "(", ")", "*", "+", ",", "-",
       ".", "/", "0", "1", "2", "3", "4", "5", "6", "7", "8", "9", ":", ";",
       "<", "=", ">", "?", "@", "A", "B", "C", "D", "E", "F", "G", "H", "I",
       "J", "K", "L", "M", "N", "O", "P", "Q", "R", "S", "T", "U", "V", "W",
       "X", "Y", "Z", "[", "\\", "]", "^", "_", "grave", "a", "b", "c", "d", "e",
       "f", "g", "h", "i", "j", "k", "l", "m", "n", "o", "p", "q", "r", "s",
       "t", "u", "v", "w", "x", "y", "z", "{", "|", "}", "~" >>

\* The code point of a printable ASCII character (the table's entry for the
\* grave accent, code point 96, is spelled out).
Ord(c) == 31 + (CHOOSE i \in 1..Len(Printable) : Printable[i] = c)

\* The text written as a tuple of one-character strings.
S(t) == [i \in 1..Len(t) |-> Ord(t[i])]

UpperLetters == { Ord(Printable[i]) : i \in 34..59 }
LowerLetters == { Ord(Printable[i]) : i \in 66..91 }
Digits == { Ord(Printable[i]) : i \in 17..26 }

IsUpperLetter(c) == c \in UpperLetters
IsLowerLetter(c) == c \in LowerLetters
IsLetter(c) == IsUpperLetter(c) \/ IsLowerLetter(c)
IsDigit(c) == c \in Digits

\* str.lower() and str.upper() of one ASCII character.
lower(c) == IF IsUpperLetter(c) THEN c + 32 ELSE c
upper(c) == IF IsLowerLetter(c) THEN c - 32 ELSE c

\* str.lower() of a text.
Lower(s) == [i \in 1..Len(s) |-> lower(s[i])]

\* The number of letters of a text.
RECURSIVE Letters(_)
Letters(s) ==
    IF s = <<>> THEN 0
    ELSE (IF IsLetter(Head(s)) THEN 1 ELSE 0) + Letters(Tail(s))

RECURSIVE Pow2(_)
Pow2(k) == IF k = 0 THEN 1 ELSE 2 * Pow2(k - 1)

Min(a, b) == IF a <= b THEN a ELSE b

\* All texts over the characters cs of length lo..hi.
StringsOver(cs, lo, hi) == UNION {[1..n -> cs] : n \in lo..hi}

-----------------------------------------------------------------------------
(* Python dicts: sequences of [k, v] entries in insertion order *)

Keys(d) == {d[i].k : i \in 1..Len(d)}
HasKey(d, key) == key \in Keys(d)
Get(d, key) == d[CHOOSE i \in 1..Len(d) : d[i].k = key].v

\* d[key] = val: an existing key keeps its place.
DictSet(d, key, val) ==
    IF HasKey(d, key)
    THEN [i \in 1..Len(d) |-> IF d[i].k = key THEN [k |-> key, v |-> val] ELSE d[i]]
    ELSE Append(d, [k |-> key, v |-> val])

\* del d[key]
DictDel(d, key) == SelectSeq(d, LAMBDA e : e.k # key)

-----------------------------------------------------------------------------
(* all_casings *)

\* A faulty variant of all_casings: the upper-case variant is yielded first.
RECURSIVE all_casings_upper_first(_)
all_casings_upper_first(input_string) ==
    IF input_string = <<>> THEN << <<>> >>
    ELSE LET first == Head(input_string)
             subs == all_casings_upper_first(Tail(input_string))
         IN  IF lower(first) = upper(first)
             THEN [i \in 1..Len(subs) |-> <<first>> \o subs[i]]
             ELSE [i \in 1..(2 * Len(subs)) |->
                      IF i % 2 = 1
                      THEN <<upper(first)>> \o subs[(i + 1) \div 2]
                      ELSE <<lower(first)>> \o subs[i \div 2]]

\* A faulty variant of all_casings: a character that is no letter is left out.
RECURSIVE all_casings_letters_only(_)
all_casings_letters_only(input_string) ==
    IF input_string = <<>> THEN << <<>> >>
    ELSE LET first == Head(input_string)
             subs == all_casings_letters_only(Tail(input_string))
         IN  IF lower(first) = upper(first)
             THEN subs
             ELSE [i \in 1..(2 * Len(subs)) |->
                      IF i % 2 = 1
                      THEN <<lower(first)>> \o subs[(i + 1) \div 2]
                      ELSE <<upper(first)>> \o subs[i \div 2]]

\* The sequence of texts the generator yields, in order.
RECURSIVE all_casings(_)
all_casings(input_string) ==
    IF input_string = <<>> THEN << <<>> >>
    ELSE LET first == Head(input_string)
             subs == all_casings(Tail(input_string))
         IN  IF lower(first) = upper(first)
             THEN [i \in 1..Len(subs) |-> <<first>> \o subs[i]]
             ELSE [i \in 1..(2 * Len(subs)) |->
                      IF i % 2 = 1
                      THEN <<lower(first)>> \o subs[(i + 1) \div 2]
                      ELSE <<upper(first)>> \o subs[i \div 2]]

-----------------------------------------------------------------------------
(* Python values *)

PyNone == [t |-> "None", v |-> <<>>]
PyStr(s) == [t |-> "str", v |-> s]
PyBytes(b) == [t |-> "bytes", v |-> b]
PyBool(b) == [t |-> "bool", v |-> b]
PyDict(d) == [t |-> "dict", v |-> d]
PyList(l) == [t |-> "list", v |-> l]

\* bool(x)
Truthy(x) ==
    CASE x.t = "None" -> FALSE
      [] x.t = "bool" -> x.v
      [] OTHER -> x.v # <<>>

\* event.get(key) and event.get(key, default)
EventGet(event, key, default) ==
    IF key \in DOMAIN event THEN event[key] ELSE default

Returned(value) == [kind |-> "return", value |-> value]
Raised(exc) == [kind |-> "raise", exc |-> exc]

-----------------------------------------------------------------------------
(* The response side: handle_headers and transform_response *)

\* AbstractHandler._handle_multi_value_headers: the partition of the response's
\* header pairs into the names that occur once (headers) and the names that
\* occur more than once, each with all its values in order (multi_value_headers).
RECURSIVE handle_multi_value_headers_from(_, _, _, _)
handle_multi_value_headers_from(response_headers, i, headers, multi_value_headers) ==
    IF i > Len(response_headers)
    THEN [headers |-> headers, multi_value_headers |-> multi_value_headers]
    ELSE LET lower_key == Lower(response_headers[i].name)
             value == response_headers[i].value
         IN  IF HasKey(multi_value_headers, lower_key)
             THEN handle_multi_value_headers_from(response_headers, i + 1, headers,
                      DictSet(multi_value_headers, lower_key,
                              Append(Get(multi_value_headers, lower_key), value)))
             ELSE IF HasKey(headers, lower_key)
             THEN handle_multi_value_headers_from(response_headers, i + 1,
                      DictDel(headers, lower_key),
                      DictSet(multi_value_headers, lower_key,
                              <<Get(headers, lower_key), value>>))
             ELSE handle_multi_value_headers_from(response_headers, i + 1,
                      DictSet(headers, lower_key, value), multi_value_headers)

handle_multi_value_headers(response_headers) ==
    handle_multi_value_headers_from(response_headers, 1, <<>>, <<>>)

\* A faulty variant of assign_casings: when the casings run out they are used again.
RECURSIVE assign_casings_wrapping(_, _, _, _)
assign_casings_wrapping(headers, values, casings, i) ==
    IF i > Len(values) THEN headers
    ELSE assign_casings_wrapping(
             DictSet(headers, casings[((i - 1) % Len(casings)) + 1], values[i]),
             values, casings, i + 1)

\* for value, cased_key in zip(values, all_casings(key)): headers[cased_key] = value
\* (zip ends with the shorter of the two).
RECURSIVE assign_casings(_, _, _, _)
assign_casings(headers, values, casings, i) ==
    IF i > Min(Len(values), Len(casings)) THEN headers
    ELSE assign_casings(DictSet(headers, casings[i], values[i]),
                        values, casings, i + 1)

\* for key, values in multi_value_headers.items(): if len(values) > 1: ...
RECURSIVE mutate_casings(_, _, _)
mutate_casings(headers, multi_value_headers, j) ==
    IF j > Len(multi_value_headers) THEN headers
    ELSE LET key == multi_value_headers[j].k
             values == multi_value_headers[j].v
         IN  mutate_casings(
                 IF Len(values) > 1
                 THEN assign_casings(headers, values, all_casings(key), 1)
                 ELSE headers,
                 multi_value_headers, j + 1)

\* A faulty variant of handle_headers: the test of the event is inverted.
handle_headers_inverted(event, response_headers) ==
    LET part == handle_multi_value_headers(response_headers)
    IN  IF "multiValueHeaders" \in DOMAIN event
        THEN [headers |-> mutate_casings(part.headers, part.multi_value_headers, 1),
              multi_value_headers |-> <<>>]
        ELSE part

\* AwsAlb.handle_headers
handle_headers(event, response_headers) ==
    LET part == handle_multi_value_headers(response_headers)
    IN  IF "multiValueHeaders" \notin DOMAIN event
        THEN [headers |-> mutate_casings(part.headers, part.multi_value_headers, 1),
              multi_value_headers |-> <<>>]
        ELSE part

\* AbstractHandler._handle_base64_response_body: the body as the reply carries
\* it and whether it is base64; the choice is the collaborator's.
handle_base64_response_body(body, headers) ==
    { [body |-> [text |-> body], is_base64_encoded |-> FALSE],
      [body |-> [base64 |-> body], is_base64_encoded |-> TRUE] }

\* AwsAlb.transform_response: the replies it may return.
transform_response(event, resp) ==
    LET hh == handle_headers(event, resp.headers)
    IN  { [statusCode |-> resp.status,
           headers |-> hh.headers,
           multiValueHeaders |-> hh.multi_value_headers,
           body |-> out.body,
           isBase64Encoded |-> out.is_base64_encoded] :
          out \in handle_base64_response_body(resp.body, hh.headers) }

-----------------------------------------------------------------------------
(* The events and responses of the response side *)

\* The longest list of response headers.
MaxHeaders == 4

\* Response header names as the application writes them: two spellings of a
\* name of two letters, a name of one letter and a name of none.
HeaderNames == { S(<<"a", "b">>), S(<<"A", "b">>), S(<<"a", "-">>), S(<<"-">>) }
HeaderValues == { S(<<"x">>), S(<<"y">>) }

ResponseHeaders ==
    UNION { [1..n -> [name : HeaderNames, value : HeaderValues]] : n \in 0..MaxHeaders }

Responses == [status : {200}, headers : ResponseHeaders, body : {"payload"}]

\* Every event of this model has the two required keys.
BaseEvent == [path |-> PyStr(S(<<"/">>)), httpMethod |-> PyStr(S(<<"G", "E", "T">>))]

\* The events of the response side: without the key multiValueHeaders, and
\* with it, holding a dict or None.
ResponseEvents ==
    { BaseEvent,
      BaseEvent @@ ("multiValueHeaders" :> PyDict(<<>>)),
      BaseEvent @@ ("multiValueHeaders" :> PyNone) }

NoResponse == [status |-> 0, headers |-> <<>>, body |-> "none"]
NoQuery == [pairs |-> <<>>, encoded |-> FALSE, form |-> "none"]
NoResult == [kind |-> "none"]

InitResponse ==
    /\ trigger_event \in ResponseEvents
    /\ response \in Responses
    /\ query_sent = NoQuery
    /\ pc = "start"
    /\ result = NoResult

TransformResponse ==
    /\ pc = "start"
    /\ \E reply \in transform_response(trigger_event, response) :
           result' = Returned(reply)
    /\ pc' = "transform_response"
    /\ UNCHANGED <<trigger_event, response, query_sent>>

NextResponse == TransformResponse

SpecResponse == InitResponse /\ [][NextResponse]_vars

-----------------------------------------------------------------------------
(* Text and bytes: str.encode(), bytes.decode(), urllib.parse *)

RECURSIVE Flatten(_)
Flatten(ss) == IF ss = <<>> THEN <<>> ELSE Head(ss) \o Flatten(Tail(ss))

\* The UTF-8 encoding of one code point.
Utf8EncodeChar(c) ==
    IF c < 128 THEN <<c>>
    ELSE IF c < 2048 THEN <<192 + (c \div 64), 128 + (c % 64)>>
    ELSE IF c < 65536
    THEN <<224 + (c \div 4096), 128 + ((c \div 64) % 64), 128 + (c % 64)>>
    ELSE <<240 + (c \div 262144), 128 + ((c \div 4096) % 64),
           128 + ((c \div 64) % 64), 128 + (c % 64)>>

\* str.encode(): the UTF-8 bytes of a text.
Utf8Encode(s) == Flatten([i \in 1..Len(s) |-> Utf8EncodeChar(s[i])])

IsContinuation(b) == b >= 128 /\ b <= 191

\* bytes.decode("utf-8", "replace").  One-byte and two-byte sequences are
\* decoded; any other byte of 128 or more becomes U+FFFD.
RECURSIVE Utf8Decode(_)
Utf8Decode(bs) ==
    IF bs = <<>> THEN <<>>
    ELSE LET b == Head(bs)
         IN  IF b < 128 THEN <<b>> \o Utf8Decode(Tail(bs))
             ELSE IF b >= 194 /\ b <= 223 /\ Len(bs) >= 2 /\ IsContinuation(bs[2])
             THEN <<(b - 192) * 64 + (bs[2] - 128)>> \o Utf8Decode(SubSeq(bs, 3, Len(bs)))
             ELSE <<65533>> \o Utf8Decode(Tail(bs))

HexDigits == S(<<"0", "1", "2", "3", "4", "5", "6", "7", "8", "9",
                 "A", "B", "C", "D", "E", "F">>)

IsHex(c) == IsDigit(c) \/ upper(c) \in { HexDigits[i] : i \in 11..16 }
HexValue(c) == (CHOOSE i \in 1..16 : HexDigits[i] = upper(c)) - 1

Percent == Ord("%")
Plus == Ord("+")
Space == Ord(" ")
Ampersand == Ord("&")
Equals == Ord("=")
Slash == Ord("/")
Colon == Ord(":")

\* The position of the first c in s, or 0.
IndexOf(s, c) ==
    IF \E i \in 1..Len(s) : s[i] = c
    THEN CHOOSE i \in 1..Len(s) : s[i] = c /\ \A j \in 1..(i - 1) : s[j] # c
    ELSE 0

\* str.split(c): the parts of s between the separators c.
RECURSIVE Split(_, _)
Split(s, c) ==
    LET i == IndexOf(s, c)
    IN  IF i = 0 THEN <<s>>
        ELSE <<SubSeq(s, 1, i - 1)>> \o Split(SubSeq(s, i + 1, Len(s)), c)

\* urllib.parse.unquote_to_bytes on a text whose characters are ASCII: "%"
\* followed by two hexadecimal digits is the byte they name, and anything
\* else stands for itself.
RECURSIVE unquote_to_bytes(_)
unquote_to_bytes(s) ==
    IF s = <<>> THEN <<>>
    ELSE IF Head(s) = Percent /\ Len(s) >= 3 /\ IsHex(s[2]) /\ IsHex(s[3])
    THEN <<16 * HexValue(s[2]) + HexValue(s[3])>> \o unquote_to_bytes(SubSeq(s, 4, Len(s)))
    ELSE <<Head(s)>> \o unquote_to_bytes(Tail(s))

\* The longest prefix of s whose characters are ASCII (ascii = TRUE) or are
\* not (ascii = FALSE).
RECURSIVE RunLength(_, _)
RunLength(s, ascii) ==
    IF s = <<>> \/ (Head(s) < 128) # ascii THEN 0
    ELSE 1 + RunLength(Tail(s), ascii)

\* urllib.parse.unquote: every run of ASCII characters is unquoted to bytes
\* and decoded as UTF-8, errors replaced; other characters are kept.
RECURSIVE unquote(_)
unquote(s) ==
    IF s = <<>> THEN <<>>
    ELSE LET ascii == Head(s) < 128
             n == RunLength(s, ascii)
             run == SubSeq(s, 1, n)
         IN  (IF ascii THEN Utf8Decode(unquote_to_bytes(run)) ELSE run)
             \o unquote(SubSeq(s, n + 1, Len(s)))

\* A faulty variant of unquote_plus: "+" is not taken for a space.
unquote_plus_keeping_plus(s) == unquote(s)

\* urllib.parse.unquote_plus: string.replace("+", " "), then unquote.
unquote_plus(s) ==
    unquote([i \in 1..Len(s) |-> IF s[i] = Plus THEN Space ELSE s[i]])

AlwaysSafe == S(<<"_", ".", "-", "~">>)

IsAlwaysSafe(b) ==
    IsLetter(b) \/ IsDigit(b) \/ b \in { AlwaysSafe[i] : i \in 1..Len(AlwaysSafe) }

\* urllib.parse.quote_from_bytes: a byte that is not safe is written "%XX".
quote_from_bytes(bs, safe) ==
    Flatten([i \in 1..Len(bs) |->
                IF IsAlwaysSafe(bs[i]) \/ bs[i] \in safe
                THEN <<bs[i]>>
                ELSE <<Percent, HexDigits[(bs[i] \div 16) + 1], HexDigits[(bs[i] % 16) + 1]>>])

\* urllib.parse.quote of a text.
quote(s, safe) == quote_from_bytes(Utf8Encode(s), safe)

\* urllib.parse.quote_plus of a text with safe = "", as urlencode calls it:
\* the space is quoted as "+".
quote_plus(s) ==
    LET quoted == quote(s, {Space})
    IN  [i \in 1..Len(quoted) |-> IF quoted[i] = Space THEN Plus ELSE quoted[i]]

\* urllib.parse.urlencode of a list of (key, value) pairs of texts.
RECURSIVE urlencode(_)
urlencode(query) ==
    IF query = <<>> THEN <<>>
    ELSE quote_plus(query[1][1]) \o <<Equals>> \o quote_plus(query[1][2])
         \o (IF Len(query) > 1 THEN <<Ampersand>> \o urlencode(Tail(query)) ELSE <<>>)

-----------------------------------------------------------------------------
(* The query string: encode_query_string *)

\* The (key, value) pairs of the loop over params.items(), each key and
\* value unquoted: one pair per value of a list, one for any other value.
RECURSIVE unquoted_pairs(_)
unquoted_pairs(params) ==
    IF params = <<>> THEN <<>>
    ELSE LET key == params[1].k
             value == params[1].v
         IN  (IF value.t = "list"
              THEN [i \in 1..Len(value.v) |->
                       <<unquote_plus(key), unquote_plus(value.v[i])>>]
              ELSE << <<unquote_plus(key), unquote_plus(value.v)>> >>)
             \o unquoted_pairs(Tail(params))

\* A faulty variant of encode_query_string: queryStringParameters comes first.
encode_query_string_single_first(event) ==
    LET single == EventGet(event, "queryStringParameters", PyNone)
        params == IF ~Truthy(single)
                  THEN EventGet(event, "multiValueQueryStringParameters", PyNone)
                  ELSE single
    IN  IF ~Truthy(params) THEN <<>>
        ELSE Utf8Encode(urlencode(unquoted_pairs(params.v)))

\* AwsAlb.encode_query_string: the bytes it returns.
encode_query_string(event) ==
    LET multi == EventGet(event, "multiValueQueryStringParameters", PyNone)
        params == IF ~Truthy(multi)
                  THEN EventGet(event, "queryStringParameters", PyNone)
                  ELSE multi
    IN  IF ~Truthy(params) THEN <<>>
        ELSE Utf8Encode(urlencode(unquoted_pairs(params.v)))

-----------------------------------------------------------------------------
(* The events of the query string *)

\* The longest key or value of a query, the most keys and the most values
\* of one key.
MaxQueryLen == 3
MaxParams == 2
MaxValues == 2

QueryChars == { Ord("z"), Ord("%"), Ord("+"), Ord(" "), Ord("2") }
QueryTexts == StringsOver(QueryChars, 0, MaxQueryLen)
QueryKeys == { S(<<"k">>), S(<<"%", "2">>), S(<<"+">>) }
ShortValues == { S(<<"z">>), S(<<"+">>) }

\* One key with one value that is any text.
RichQueries ==
    { << [k |-> key, v |-> <<val>>] >> : key \in QueryKeys, val \in QueryTexts }

\* The keys of a query with several keys, in the order the event holds them.
KeyOrders ==
    { <<S(<<"k">>), S(<<"%", "2">>), S(<<"+">>)>>,
      <<S(<<"+">>), S(<<"%", "2">>), S(<<"k">>)>> }

\* Up to MaxParams keys, each with up to MaxValues short values.
StructuredQueries ==
    LET lists == UNION { [1..n -> ShortValues] : n \in 0..MaxValues }
    IN  UNION { { [i \in 1..n |-> [k |-> order[i], v |-> values[i]]] :
                    values \in [1..n -> lists] } :
                order \in KeyOrders, n \in 0..Min(MaxParams, 3) }

Queries == RichQueries \cup StructuredQueries

SingleValued(q) == \A i \in 1..Len(q) : Len(q[i].v) = 1

\* How the event carries a query: under which keys, beside what.
FormsOf(q) ==
    IF q = <<>> THEN {"absent", "null", "empty"}
    ELSE {"multi", "multi_beside_single"}
         \cup (IF SingleValued(q)
               THEN {"single", "single_beside_empty_multi", "single_beside_null_multi"}
               ELSE {})

QueriesSent ==
    { qs \in [pairs : Queries, encoded : BOOLEAN,
              form : {"absent", "null", "empty", "multi", "multi_beside_single",
                      "single", "single_beside_empty_multi",
                      "single_beside_null_multi"}] :
        qs.form \in FormsOf(qs.pairs) }

\* A text as the load balancer hands it over: as the client wrote it, which
\* is percent-encoded once or not at all.
HandedOver(text, encoded) == IF encoded THEN quote_plus(text) ELSE text

MultiValueParams(qs) ==
    PyDict([i \in 1..Len(qs.pairs) |->
               [k |-> HandedOver(qs.pairs[i].k, qs.encoded),
                v |-> PyList([j \in 1..Len(qs.pairs[i].v) |->
                                 HandedOver(qs.pairs[i].v[j], qs.encoded)])]])

SingleValueParams(qs) ==
    PyDict([i \in 1..Len(qs.pairs) |->
               [k |-> HandedOver(qs.pairs[i].k, qs.encoded),
                v |-> PyStr(HandedOver(qs.pairs[i].v[1], qs.encoded))]])

OtherParams == PyDict(<< [k |-> S(<<"o">>), v |-> PyStr(S(<<"1">>))] >>)

QueryEvent(qs) ==
    CASE qs.form = "absent" -> BaseEvent
      [] qs.form = "null" ->
            BaseEvent @@ ("multiValueQueryStringParameters" :> PyNone)
                      @@ ("queryStringParameters" :> PyNone)
      [] qs.form = "empty" ->
            BaseEvent @@ ("multiValueQueryStringParameters" :> PyDict(<<>>))
                      @@ ("queryStringParameters" :> PyDict(<<>>))
      [] qs.form = "multi" ->
            BaseEvent @@ ("multiValueQueryStringParameters" :> MultiValueParams(qs))
      [] qs.form = "multi_beside_single" ->
            BaseEvent @@ ("multiValueQueryStringParameters" :> MultiValueParams(qs))
                      @@ ("queryStringParameters" :> OtherParams)
      [] qs.form = "single" ->
            BaseEvent @@ ("queryStringParameters" :> SingleValueParams(qs))
      [] qs.form = "single_beside_empty_multi" ->
            BaseEvent @@ ("multiValueQueryStringParameters" :> PyDict(<<>>))
                      @@ ("queryStringParameters" :> SingleValueParams(qs))
      [] qs.form = "single_beside_null_multi" ->
            BaseEvent @@ ("multiValueQueryStringParameters" :> PyNone)
                      @@ ("queryStringParameters" :> SingleValueParams(qs))

InitQuery ==
    /\ query_sent \in QueriesSent
    /\ trigger_event = QueryEvent(query_sent)
    /\ response = NoResponse
    /\ pc = "start"
    /\ result = NoResult

EncodeQueryString ==
    /\ pc = "start"
    /\ result' = Returned(encode_query_string(trigger_event))
    /\ pc' = "encode_query_string"
    /\ UNCHANGED <<trigger_event, response, query_sent>>

NextQuery == EncodeQueryString

SpecQuery == InitQuery /\ [][NextQuery]_vars

-----------------------------------------------------------------------------
(* The request side: the request property *)

\* dict.get(key, default) on a dict of the model.
DictGet(d, key, default) == IF HasKey(d, key) THEN Get(d, key) ELSE default

\* {k.lower(): v for k, v in event.get("headers", {}).items()}
RECURSIVE lowered_headers(_, _)
lowered_headers(items, headers) ==
    IF items = <<>> THEN headers
    ELSE lowered_headers(Tail(items), DictSet(headers, Lower(items[1].k), items[1].v))

\* int() of a text of decimal digits; any other text of the model is no number.
RECURSIVE DecimalValue(_)
DecimalValue(text) ==
    IF text = <<>> THEN 0
    ELSE 10 * DecimalValue(SubSeq(text, 1, Len(text) - 1))
         + (text[Len(text)] - Ord("0"))

IsDecimal(text) == text # <<>> /\ \A i \in 1..Len(text) : IsDigit(text[i])

\* A faulty variant of request_path: the path is decoded as a form field is.
request_path_as_form_field(path) ==
    unquote_plus(IF ~Truthy(path) THEN <<Slash>> ELSE path.v)

\* if not path: path = "/", and the Request's path=urllib.parse.unquote(path)
request_path(path) ==
    unquote(IF ~Truthy(path) THEN <<Slash>> ELSE path.v)

\* The request property from the point where path and httpMethod are read.
request_from(event, path, http_method) ==
    LET headers == IF Truthy(EventGet(event, "headers", PyNone))
                   THEN lowered_headers(event["headers"].v, <<>>)
                   ELSE <<>>
        source_ip == DictGet(headers, S(<<"x", "-", "f", "o", "r", "w", "a", "r", "d", "e", "d", "-", "f", "o", "r">>), <<>>)
        query_string == encode_query_string(event)
        host == DictGet(headers, S(<<"h", "o", "s", "t">>), S(<<"m", "a", "n", "g", "u", "m">>))
        parts == Split(host, Colon)
        forwarded_port == DictGet(headers, S(<<"x", "-", "f", "o", "r", "w", "a", "r", "d", "e", "d", "-", "p", "o", "r", "t">>), S(<<"8", "0">>))
        server_name == IF Len(parts) = 1 THEN host ELSE parts[1]
        server_port == IF Len(parts) = 1 THEN forwarded_port ELSE parts[2]
    IN  IF Len(parts) > 2 THEN Raised("ValueError")
        ELSE IF ~IsDecimal(server_port) THEN Raised("ValueError")
        ELSE Returned(
            [method |-> http_method,
             headers |-> [i \in 1..Len(headers) |->
                             <<Utf8Encode(headers[i].k), Utf8Encode(headers[i].v)>>],
             path |-> request_path(path),
             scheme |-> DictGet(headers, S(<<"x", "-", "f", "o", "r", "w", "a", "r", "d", "e", "d", "-", "p", "r", "o", "t", "o">>), S(<<"h", "t", "t", "p", "s">>)),
             query_string |-> query_string,
             server |-> <<server_name, DecimalValue(server_port)>>,
             client |-> <<source_ip, 0>>,
             trigger_event |-> event,
             trigger_context |-> "context",
             event_type |-> "AWS_ALB"])

\* A faulty variant of request: a key that is missing is read as None.
request_reading_none(event) ==
    request_from(event, EventGet(event, "path", PyNone),
                 EventGet(event, "httpMethod", PyNone))

\* AwsAlb.request: the Request it returns or the error it raises.
request(event) ==
    IF "path" \notin DOMAIN event THEN Raised("KeyError")
    ELSE IF "httpMethod" \notin DOMAIN event THEN Raised("KeyError")
    ELSE request_from(event, event["path"], event["httpMethod"])

-----------------------------------------------------------------------------
(* The events of the request side *)

\* The most headers of an event and the longest path.
MaxEventHeaders == 2
MaxPathLen == 2

\* Header entries an event may hold: two spellings of one name, and the
\* headers the request reads, with values it accepts and values it rejects.
EventHeaderEntries ==
    { [k |-> S(<<"A">>), v |-> S(<<"x">>)],
      [k |-> S(<<"a">>), v |-> S(<<"y">>)],
      [k |-> S(<<"H", "o", "s", "t">>), v |-> S(<<"h">>)],
      [k |-> S(<<"h", "o", "s", "t">>), v |-> S(<<"h", ":", "8">>)],
      [k |-> S(<<"H", "O", "S", "T">>), v |-> S(<<"h", ":", "8", ":", "9">>)],
      [k |-> S(<<"X", "-", "F", "o", "r", "w", "a", "r", "d", "e", "d", "-", "P", "o", "r", "t">>),
       v |-> S(<<"8", "1">>)],
      [k |-> S(<<"x", "-", "f", "o", "r", "w", "a", "r", "d", "e", "d", "-", "p", "o", "r", "t">>),
       v |-> S(<<"p">>)] }

EventHeaders ==
    { hs \in UNION { [1..n -> EventHeaderEntries] : n \in 0..MaxEventHeaders } :
        \A i, j \in 1..Len(hs) : i # j => hs[i].k # hs[j].k }

PathChars == { Ord("/"), Ord("%"), Ord("2"), Ord("+") }

SamplePaths ==
    { S(<<"/", "a", "%", "2", "0", "b">>),
      S(<<"/", "%", "2", "5", "2", "5">>),
      S(<<"a", "/", "b">>) }

Paths == StringsOver(PathChars, 0, MaxPathLen) \cup SamplePaths

\* The parts of an event the request reads: each key present or not.
RequestEvents ==
    { fields \in
        [ path : [present : BOOLEAN, value : {PyNone} \cup { PyStr(p) : p \in Paths }],
          httpMethod : BOOLEAN,
          headers : [present : BOOLEAN, value : {PyNone} \cup { PyDict(hs) : hs \in EventHeaders }] ] :
        /\ ~fields.path.present => fields.path.value = PyNone
        /\ ~fields.headers.present => fields.headers.value = PyNone }

RequestEvent(fields) ==
    [ key \in (IF fields.path.present THEN {"path"} ELSE {})
              \cup (IF fields.httpMethod THEN {"httpMethod"} ELSE {})
              \cup (IF fields.headers.present THEN {"headers"} ELSE {})
              \cup {"queryStringParameters"} |->
        CASE key = "path" -> fields.path.value
          [] key = "httpMethod" -> PyStr(S(<<"G", "E", "T">>))
          [] key = "headers" -> fields.headers.value
          [] key = "queryStringParameters" ->
                 PyDict(<< [k |-> S(<<"q">>), v |-> PyStr(S(<<"a", "+", "b">>))] >>) ]

InitRequest ==
    /\ trigger_event \in { RequestEvent(fields) : fields \in RequestEvents }
    /\ response = NoResponse
    /\ query_sent = NoQuery
    /\ pc = "start"
    /\ result = NoResult

GetRequest ==
    /\ pc = "start"
    /\ result' = request(trigger_event)
    /\ pc' = "request"
    /\ UNCHANGED <<trigger_event, response, query_sent>>

NextRequest == GetRequest

SpecRequest == InitRequest /\ [][NextRequest]_vars

-----------------------------------------------------------------------------
(* The body: the body property *)

Base64Alphabet ==
    S(<<"A", "B", "C", "D", "E", "F", "G", "H", "I", "J", "K", "L", "M",
        "N", "O", "P", "Q", "R", "S", "T", "U", "V", "W", "X", "Y", "Z",
        "a", "b", "c", "d", "e", "f", "g", "h", "i", "j", "k", "l", "m",
        "n", "o", "p", "q", "r", "s", "t", "u", "v", "w", "x", "y", "z",
        "0", "1", "2", "3", "4", "5", "6", "7", "8", "9", "+", "/">>)

IsBase64Char(c) == \E i \in 1..64 : Base64Alphabet[i] = c
Base64Value(c) == (CHOOSE i \in 1..64 : Base64Alphabet[i] = c) - 1

\* binascii.a2b_base64, not strict: a character outside the alphabet is
\* skipped; padding that completes a group of four ends the data; data that
\* ends inside a group is an error.
RECURSIVE a2b_base64_from(_, _, _, _, _, _)
a2b_base64_from(data, i, quad_pos, pads, leftchar, out) ==
    IF i > Len(data)
    THEN IF quad_pos # 0 THEN Raised("binascii.Error") ELSE Returned(PyBytes(out))
    ELSE IF data[i] = Equals
    THEN IF quad_pos >= 2 /\ quad_pos + pads + 1 >= 4
         THEN Returned(PyBytes(out))
         ELSE a2b_base64_from(data, i + 1, quad_pos,
                              IF quad_pos >= 2 THEN pads + 1 ELSE pads, leftchar, out)
    ELSE IF ~IsBase64Char(data[i])
    THEN a2b_base64_from(data, i + 1, quad_pos, pads, leftchar, out)
    ELSE LET this_ch == Base64Value(data[i])
         IN  CASE quad_pos = 0 ->
                    a2b_base64_from(data, i + 1, 1, 0, this_ch, out)
               [] quad_pos = 1 ->
                    a2b_base64_from(data, i + 1, 2, 0, this_ch % 16,
                                    Append(out, leftchar * 4 + (this_ch \div 16)))
               [] quad_pos = 2 ->
                    a2b_base64_from(data, i + 1, 3, 0, this_ch % 4,
                                    Append(out, leftchar * 16 + (this_ch \div 4)))
               [] quad_pos = 3 ->
                    a2b_base64_from(data, i + 1, 0, 0, 0,
                                    Append(out, leftchar * 64 + this_ch))

\* base64.b64decode: a text must be ASCII; then binascii.a2b_base64.
b64decode(s) ==
    IF s.t = "str" /\ \E i \in 1..Len(s.v) : s.v[i] >= 128
    THEN Raised("ValueError")
    ELSE a2b_base64_from(s.v, 1, 0, 0, 0, <<>>)

\* A faulty variant of body: the body is read without "or b''".
body_without_default(event) ==
    LET read == EventGet(event, "body", PyBytes(<<>>))
    IN  IF read.t = "None"
        THEN (IF Truthy(EventGet(event, "isBase64Encoded", PyBool(FALSE)))
              THEN Raised("TypeError") ELSE Raised("AttributeError"))
        ELSE IF Truthy(EventGet(event, "isBase64Encoded", PyBool(FALSE)))
        THEN b64decode(read)
        ELSE IF read.t # "bytes" THEN Returned(PyBytes(Utf8Encode(read.v)))
        ELSE Returned(read)

\* AwsAlb.body: the bytes it returns or the error it raises.
body(event) ==
    LET read == EventGet(event, "body", PyBytes(<<>>))
        body_or_empty == IF Truthy(read) THEN read ELSE PyBytes(<<>>)
    IN  IF Truthy(EventGet(event, "isBase64Encoded", PyBool(FALSE)))
        THEN b64decode(body_or_empty)
        ELSE IF body_or_empty.t # "bytes"
        THEN Returned(PyBytes(Utf8Encode(body_or_empty.v)))
        ELSE Returned(body_or_empty)

-----------------------------------------------------------------------------
(* The events of the body *)

\* The longest body.
MaxBodyLen == 4

BodyChars == { Ord("Q"), Ord("U"), Ord("="), Ord("!") }

\* "aGVsbG8=" is base64 for "hello".
HelloBase64 == S(<<"a", "G", "V", "s", "b", "G", "8", "=">>)
Hello == S(<<"h", "e", "l", "l", "o">>)

\* A text that is not ASCII: "h" and e with an acute accent.
AccentedText == S(<<"h">>) \o <<233>>

BodyTexts == StringsOver(BodyChars, 0, MaxBodyLen) \cup { HelloBase64 }

Bodies ==
    { PyNone } \cup { PyStr(t) : t \in BodyTexts \cup { AccentedText } }
               \cup { PyBytes(t) : t \in BodyTexts }

BodyEvents ==
    { BaseEvent @@ b @@ f :
        b \in { <<>> } \cup { ("body" :> x) : x \in Bodies },
        f \in { <<>> } \cup { ("isBase64Encoded" :> PyBool(x)) : x \in BOOLEAN } }

InitBody ==
    /\ trigger_event \in BodyEvents
    /\ response = NoResponse
    /\ query_sent = NoQuery
    /\ pc = "start"
    /\ result = NoResult

GetBody ==
    /\ pc = "start"
    /\ result' = body(trigger_event)
    /\ pc' = "body"
    /\ UNCHANGED <<trigger_event, response, query_sent>>

NextBody == GetBody

SpecBody == InitBody /\ [][NextBody]_vars

-----------------------------------------------------------------------------
(* What the claims about the response side speak of *)

Done(op) == pc = op /\ result.kind = "return"
Reply == result.value
NativeMultiValue == "multiValueHeaders" \in DOMAIN trigger_event

\* The lower-cased header names of the response.
ResponseNames == { Lower(response.headers[i].name) : i \in 1..Len(response.headers) }

\* The values of the response's occurrences of a header name, in order.
RECURSIVE OccurrencesFrom(_, _, _)
OccurrencesFrom(hs, name, i) ==
    IF i > Len(hs) THEN <<>>
    ELSE (IF Lower(hs[i].name) = name THEN <<hs[i].value>> ELSE <<>>)
         \o OccurrencesFrom(hs, name, i + 1)

Occurrences(name) == OccurrencesFrom(response.headers, name, 1)

\* The i-th casing of a lower-case name, all lower-case first and the
\* leftmost letter alternating fastest: the j-th letter (from 0, from the
\* left) is upper-case exactly when bit j of i - 1 is set.
NthCasing(name, i) ==
    [p \in 1..Len(name) |->
        IF IsLetter(name[p])
           /\ ((i - 1) \div Pow2(Letters(SubSeq(name, 1, p - 1)))) % 2 = 1
        THEN upper(name[p])
        ELSE name[p]]

\* The entries of a dict whose keys lower-case to the name, in the dict's order.
EntriesFor(d, name) == SelectSeq(d, LAMBDA e : Lower(e.k) = name)

\* The number of entries the flattened map holds for a name with the values vals.
Flattened(name, vals) ==
    IF Len(vals) > 1 THEN Min(Len(vals), Pow2(Letters(name))) ELSE 1

RECURSIVE Sum(_, _)
Sum(f, set) ==
    IF set = {} THEN 0
    ELSE LET x == CHOOSE y \in set : TRUE IN f[x] + Sum(f, set \ {x})

\* C1: without the event key multiValueHeaders, a header name that occurs
\* n > 1 times, n at most 2^(its letters), is stored under exactly n keys, the
\* i-th occurrence's value under the i-th casing of the name in enumeration
\* order, and the reply's multiValueHeaders is empty.
C1_CasingsCarryEveryValue ==
    (Done("transform_response") /\ ~NativeMultiValue) =>
        /\ Reply.multiValueHeaders = <<>>
        /\ \A name \in ResponseNames :
              LET vals == Occurrences(name)
                  n == Len(vals)
              IN  (n > 1 /\ n <= Pow2(Letters(name))) =>
                     /\ Len(EntriesFor(Reply.headers, name)) = n
                     /\ Cardinality(Keys(EntriesFor(Reply.headers, name))) = n
                     /\ \A i \in 1..n :
                           /\ HasKey(Reply.headers, NthCasing(name, i))
                           /\ Get(Reply.headers, NthCasing(name, i)) = vals[i]

\* A name of two letters with four occurrences whose values differ: all four
\* casings are used.
C1_Witness ==
    /\ Done("transform_response") /\ ~NativeMultiValue
    /\ \E name \in ResponseNames :
          /\ Letters(name) = 2
          /\ Len(Occurrences(name)) = 4
          /\ Occurrences(name)[1] # Occurrences(name)[2]
          /\ Occurrences(name)[3] # Occurrences(name)[4]

\* C2 as claimed: with the event key multiValueHeaders, the reply's
\* multiValueHeaders is the partition's multi-value map and the reply's
\* single-valued headers map is empty.
C2_SingleValuedMapEmpty ==
    (Done("transform_response") /\ NativeMultiValue) =>
        /\ Reply.multiValueHeaders =
               handle_multi_value_headers(response.headers).multi_value_headers
        /\ Reply.headers = <<>>

\* C2 as amended: with the event key multiValueHeaders, whatever its value,
\* the reply carries both maps of the partition unmodified: multiValueHeaders
\* holds exactly the names that occur more than once, each with all its
\* values in order, and headers holds exactly the names that occur once.
C2_PartitionPassedThrough ==
    (Done("transform_response") /\ NativeMultiValue) =>
        /\ Reply.multiValueHeaders =
               handle_multi_value_headers(response.headers).multi_value_headers
        /\ Reply.headers = handle_multi_value_headers(response.headers).headers
        /\ Keys(Reply.multiValueHeaders) =
               { name \in ResponseNames : Len(Occurrences(name)) > 1 }
        /\ \A name \in Keys(Reply.multiValueHeaders) :
               Get(Reply.multiValueHeaders, name) = Occurrences(name)
        /\ Keys(Reply.headers) =
               { name \in ResponseNames : Len(Occurrences(name)) = 1 }
        /\ \A name \in Keys(Reply.headers) :
               Get(Reply.headers, name) = Occurrences(name)[1]

\* An event whose multiValueHeaders is None, and a response with a repeated
\* name and a name that occurs once.
C2_Witness ==
    /\ Done("transform_response") /\ NativeMultiValue
    /\ trigger_event["multiValueHeaders"] = PyNone
    /\ \E name \in ResponseNames : Len(Occurrences(name)) = 2
    /\ \E name \in ResponseNames : Len(Occurrences(name)) = 1

\* C9: without the event key multiValueHeaders, a header name of k letters
\* that occurs n > 2^k times raises no error; the headers map holds for it
\* exactly the 2^k casings, carrying the first 2^k values in order, and
\* nothing else of it is in the reply.
C9_ExcessValuesDropped ==
    (pc = "transform_response" /\ ~NativeMultiValue) =>
        /\ result.kind = "return"
        /\ \A name \in ResponseNames :
              LET vals == Occurrences(name)
                  m == Pow2(Letters(name))
              IN  Len(vals) > m =>
                     /\ EntriesFor(Reply.headers, name) =
                            [i \in 1..m |-> [k |-> NthCasing(name, i), v |-> vals[i]]]
                     /\ Reply.multiValueHeaders = <<>>

\* A name of one letter with three occurrences, the third value unlike the first.
C9_Witness ==
    /\ Done("transform_response") /\ ~NativeMultiValue
    /\ \E name \in ResponseNames :
          /\ Letters(name) = 1
          /\ Len(Occurrences(name)) = 3
          /\ Occurrences(name)[3] # Occurrences(name)[1]

\* C10: without the event key multiValueHeaders, every key of the headers map
\* lower-cases to a header name of the response, a name that occurs once
\* keeps its value, and the map holds one entry per name that occurs once
\* plus min(n, 2^k) per name of k letters that occurs n > 1 times.
C10_CasingsStayWithinTheirName ==
    (Done("transform_response") /\ ~NativeMultiValue) =>
        /\ \A key \in Keys(Reply.headers) : Lower(key) \in ResponseNames
        /\ Cardinality(Keys(Reply.headers)) = Len(Reply.headers)
        /\ \A name \in ResponseNames :
               Len(Occurrences(name)) = 1 =>
                   /\ HasKey(Reply.headers, name)
                   /\ Get(Reply.headers, name) = Occurrences(name)[1]
        /\ Len(Reply.headers) =
               Sum([name \in ResponseNames |-> Flattened(name, Occurrences(name))],
                   ResponseNames)

\* A repeated name with a character that is no letter and more values than
\* casings, beside a name of as many letters that occurs once.
C10_Witness ==
    /\ Done("transform_response") /\ ~NativeMultiValue
    /\ \E name \in ResponseNames :
          /\ Len(Occurrences(name)) > Pow2(Letters(name))
          /\ Letters(name) = 1 /\ Len(name) = 2
    /\ \E name \in ResponseNames :
          Len(Occurrences(name)) = 1 /\ Letters(name) = 2

-----------------------------------------------------------------------------
(* What the claims about the query string speak of *)

\* Decoding a form field: "+" is a space, then the percent-escapes.
FormDecode(text) ==
    unquote(Flatten([i \in 1..Len(text) |->
                        IF text[i] = Plus THEN <<Space>> ELSE <<text[i]>>]))

\* Percent-decoding a query string: its key=value fields, separated by "&",
\* each key and value decoded as a form field.
ParseQuery(bytes) ==
    IF bytes = <<>> THEN <<>>
    ELSE LET fields == Split(Utf8Decode(bytes), Ampersand)
         IN  [f \in 1..Len(fields) |->
                 LET eq == IndexOf(fields[f], Equals)
                 IN  IF eq = 0 THEN <<FormDecode(fields[f]), <<>> >>
                     ELSE <<FormDecode(SubSeq(fields[f], 1, eq - 1)),
                            FormDecode(SubSeq(fields[f], eq + 1, Len(fields[f])))>>]

\* The (key, value) pairs of a query as the client meant it, in order.
RECURSIVE PairsOf(_)
PairsOf(q) ==
    IF q = <<>> THEN <<>>
    ELSE [i \in 1..Len(q[1].v) |-> <<q[1].k, q[1].v[i]>>] \o PairsOf(Tail(q))

\* A text that holds a "+" or a "%" followed by two hexadecimal digits.
HasEscape(text) ==
    \E i \in 1..Len(text) :
        \/ text[i] = Plus
        \/ text[i] = Percent /\ i + 2 <= Len(text) /\ IsHex(text[i + 1]) /\ IsHex(text[i + 2])

\* Some (key, value) pair of the query holds one, in its key or its value.
QueryHasEscape(q) ==
    LET pairs == PairsOf(q)
    IN  \E i \in 1..Len(pairs) : HasEscape(pairs[i][1]) \/ HasEscape(pairs[i][2])

\* C3 as claimed: whether the query is handed over percent-encoded once or
\* not at all, decoding the query string returned gives back the client's
\* (key, value) pairs.
C3_RoundTripEitherWay ==
    Done("encode_query_string") =>
        ParseQuery(result.value) = PairsOf(query_sent.pairs)

\* C3 as amended: decoding the query string returned gives back the client's
\* pairs when the query is handed over percent-encoded once; handed over not
\* encoded, it does exactly when no pair holds, in its key or its value, a
\* "+" or a "%" followed by two hexadecimal digits.
C3_RoundTripOfEncodedQuery ==
    Done("encode_query_string") =>
        LET reproduced == ParseQuery(result.value) = PairsOf(query_sent.pairs)
        IN  /\ query_sent.encoded => reproduced
            /\ ~query_sent.encoded =>
                   (reproduced <=> ~QueryHasEscape(query_sent.pairs))

\* A query handed over encoded once whose value holds "%", "+" and a space.
C3_Witness ==
    /\ Done("encode_query_string")
    /\ query_sent.encoded
    /\ \E i \in 1..Len(query_sent.pairs) :
          \E j \in 1..Len(query_sent.pairs[i].v) :
              { Percent, Plus, Space } \subseteq
                  { query_sent.pairs[i].v[j][n] : n \in 1..Len(query_sent.pairs[i].v[j]) }
    /\ ParseQuery(result.value) = PairsOf(query_sent.pairs)

\* The parameters encode_query_string is to read, by the claim: the
\* multi-value ones when that key is present and not empty, else the others.
ClaimedParams ==
    IF /\ "multiValueQueryStringParameters" \in DOMAIN trigger_event
       /\ trigger_event["multiValueQueryStringParameters"].t = "dict"
       /\ trigger_event["multiValueQueryStringParameters"].v # <<>>
    THEN trigger_event["multiValueQueryStringParameters"].v
    ELSE IF /\ "queryStringParameters" \in DOMAIN trigger_event
            /\ trigger_event["queryStringParameters"].t = "dict"
         THEN trigger_event["queryStringParameters"].v
         ELSE <<>>

\* The keys and values of params, one pair per value, in their order.
RECURSIVE ValuesInOrder(_)
ValuesInOrder(params) ==
    IF params = <<>> THEN <<>>
    ELSE (IF params[1].v.t = "list"
          THEN [i \in 1..Len(params[1].v.v) |-> <<params[1].k, params[1].v.v[i]>>]
          ELSE << <<params[1].k, params[1].v.v>> >>)
         \o ValuesInOrder(Tail(params))

\* C5: the query string is built from multiValueQueryStringParameters when
\* that key is present and not empty, otherwise from queryStringParameters:
\* one key=value field per value, keys and a key's values in their order, each
\* the decoded key and value; with no parameters it is the empty byte string.
C5_MultiValueFirstInOrder ==
    Done("encode_query_string") =>
        LET pairs == ValuesInOrder(ClaimedParams)
            parsed == ParseQuery(result.value)
            fields == Split(result.value, Ampersand)
        IN  /\ ClaimedParams = <<>> => result.value = <<>>
            /\ Len(parsed) = Len(pairs)
            /\ \A i \in 1..Len(pairs) :
                   parsed[i] = <<FormDecode(pairs[i][1]), FormDecode(pairs[i][2])>>
            /\ pairs # <<>> =>
                   /\ Len(fields) = Len(pairs)
                   /\ \A f \in 1..Len(pairs) : Len(Split(fields[f], Equals)) = 2

\* Both keys present with different parameters, the multi-value ones with
\* two keys of two values each.
C5_Witness ==
    /\ Done("encode_query_string")
    /\ query_sent.form = "multi_beside_single"
    /\ Len(query_sent.pairs) = 2
    /\ Len(query_sent.pairs[1].v) = 2 /\ Len(query_sent.pairs[2].v) = 2
    /\ query_sent.pairs[1].v[1] # query_sent.pairs[1].v[2]
    /\ Len(ParseQuery(result.value)) = 4

-----------------------------------------------------------------------------
(* What the claims about the request speak of *)

Request == result.value

\* The header entries of the event, in their order.
SourceHeaders ==
    IF "headers" \in DOMAIN trigger_event /\ trigger_event["headers"].t = "dict"
    THEN trigger_event["headers"].v
    ELSE <<>>

\* The values of the source headers whose names lower-case to name, in
\* source order.
RECURSIVE SourceValues(_, _)
SourceValues(items, name) ==
    IF items = <<>> THEN <<>>
    ELSE (IF Lower(items[1].k) = name THEN <<items[1].v>> ELSE <<>>)
         \o SourceValues(Tail(items), name)

\* The values of the Request's header pairs of that name, in order.
RECURSIVE RequestValues(_, _)
RequestValues(pairs, name) ==
    IF pairs = <<>> THEN <<>>
    ELSE (IF Utf8Decode(pairs[1][1]) = name THEN <<Utf8Decode(pairs[1][2])>> ELSE <<>>)
         \o RequestValues(Tail(pairs), name)

\* C4: every header name of the Request is lower-case, and source headers
\* whose names differ only in case become one lower-cased name that keeps all
\* their values, in source order, as repeated pairs.
C4_EveryValueOfANameKept ==
    Done("request") =>
        /\ \A i \in 1..Len(Request.headers) :
               Lower(Utf8Decode(Request.headers[i][1])) = Utf8Decode(Request.headers[i][1])
        /\ \A i \in 1..Len(SourceHeaders) :
               LET name == Lower(SourceHeaders[i].k)
               IN  RequestValues(Request.headers, name) = SourceValues(SourceHeaders, name)

StartsWithSlash(text) == text # <<>> /\ text[1] = Slash

EventPath == trigger_event["path"]

\* The paths a client may have meant: the texts of the model's paths.
MeantPaths == Paths \cup { S(<<"/", "a", " ", "b">>), S(<<"/", "%", "2", "5">>) }

\* What the claim says of the Request's path, apart from its first character:
\* an empty path becomes "/", any other is the event's path decoded once.
PathDecodedOnce ==
    /\ ~Truthy(EventPath) => Request.path = <<Slash>>
    /\ Truthy(EventPath) =>
           /\ Request.path = unquote(EventPath.v)
           /\ \A meant \in MeantPaths :
                  EventPath.v = quote(meant, {Slash}) => Request.path = meant
           /\ EventPath.v = S(<<"/", "a", "%", "2", "0", "b">>) =>
                  Request.path = S(<<"/", "a", " ", "b">>)
           /\ EventPath.v = S(<<"/", "%", "2", "5", "2", "5">>) =>
                  Request.path = S(<<"/", "%", "2", "5">>)

\* C6 as claimed: the path of every Request starts with "/"; an empty path
\* becomes "/" and any other is the event's path percent-decoded once.
C6_PathAlwaysStartsWithSlash ==
    Done("request") => (StartsWithSlash(Request.path) /\ PathDecodedOnce)

\* C6 as amended: the path of a Request starts with "/" when the event's path
\* is empty or itself starts with "/"; an empty path becomes "/" and any other
\* is the event's path percent-decoded once, whatever its first character.
C6_PathOfRootedEventStartsWithSlash ==
    Done("request") =>
        /\ (~Truthy(EventPath) \/ StartsWithSlash(EventPath.v)) =>
               StartsWithSlash(Request.path)
        /\ PathDecodedOnce

\* The path "/%2525", which decoding twice would turn into "/%".
C6_Witness ==
    /\ Done("request")
    /\ EventPath = PyStr(S(<<"/", "%", "2", "5", "2", "5">>))
    /\ Request.path = S(<<"/", "%", "2", "5">>)

LacksRequiredKey ==
    "path" \notin DOMAIN trigger_event \/ "httpMethod" \notin DOMAIN trigger_event

\* C8 as claimed: without the key path or the key httpMethod the request
\* property raises MalformedEventError, produces no Request and leaves the
\* event unchanged.
C8_RaisesMalformedEventError ==
    [][(pc = "start" /\ pc' = "request" /\ LacksRequiredKey) =>
           /\ result' = Raised("MalformedEventError")
           /\ trigger_event' = trigger_event]_vars

\* C8 as amended: without the key path or the key httpMethod the request
\* property raises KeyError (the lookup's own error), produces no Request and
\* leaves the event unchanged.
C8_RaisesKeyError ==
    [][(pc = "start" /\ pc' = "request" /\ LacksRequiredKey) =>
           /\ result' = Raised("KeyError")
           /\ trigger_event' = trigger_event]_vars

\* An event with a path and headers but no httpMethod, after the error.
C8_Witness ==
    /\ pc = "request"
    /\ "path" \in DOMAIN trigger_event
    /\ "httpMethod" \notin DOMAIN trigger_event
    /\ SourceHeaders # <<>>
    /\ result = Raised("KeyError")

-----------------------------------------------------------------------------
(* What the claim about the body speaks of *)

\* The base64 text of a byte string.
RECURSIVE Base64Encode(_)
Base64Encode(bytes) ==
    IF bytes = <<>> THEN <<>>
    ELSE LET b1 == bytes[1]
             b2 == IF Len(bytes) >= 2 THEN bytes[2] ELSE 0
             b3 == IF Len(bytes) >= 3 THEN bytes[3] ELSE 0
         IN  << Base64Alphabet[(b1 \div 4) + 1],
                Base64Alphabet[((b1 % 4) * 16 + (b2 \div 16)) + 1],
                IF Len(bytes) >= 2
                THEN Base64Alphabet[((b2 % 16) * 4 + (b3 \div 64)) + 1] ELSE Equals,
                IF Len(bytes) >= 3 THEN Base64Alphabet[(b3 % 64) + 1] ELSE Equals >>
             \o (IF Len(bytes) > 3 THEN Base64Encode(SubSeq(bytes, 4, Len(bytes))) ELSE <<>>)

\* Byte strings whose base64 texts are among the bodies of the model.
EncodedBytes == StringsOver({ Ord("A"), Ord("E") }, 0, 3) \cup { Hello }

BodyGiven ==
    "body" \in DOMAIN trigger_event /\ trigger_event["body"].t # "None"

Base64Flagged ==
    "isBase64Encoded" \in DOMAIN trigger_event /\ trigger_event["isBase64Encoded"].v

=============================================================================
